---- MODULE Spec2Model ----
(***************************************************************************)
(* Model of sql-loader-go: the CLI run (cmd/sql-loader), the script loader *)
(* (internal/loader) and the connection provider and statement executor    *)
(* (internal/database).  Texts are sequences of one-character strings.     *)
(* The database/sql driver is the environment: each call to it either      *)
(* succeeds or fails, chosen nondeterministically.                         *)
(***************************************************************************)
EXTENDS Integers, Sequences, FiniteSets, TLC

\* ------------------------------------------------------------------ bounds
\* Longest script text enumerated.
MaxLen == 4

\* ------------------------------------------------------------- input sets
\* Characters a script is made of: two ordinary characters (a letter and a
\* quote), two whitespace characters and the statement delimiter.
Chars == {"a", "'", " ", "\n", ";"}

\* Characters strings.TrimSpace removes (the ASCII subset of unicode.IsSpace).
SpaceChars == {" ", "\t", "\n", "\r"}

RECURSIVE TextsOfLen(_)
TextsOfLen(n) ==
  IF n = 0 THEN {<<>>}
  ELSE {Append(t, c) : t \in TextsOfLen(n - 1), c \in Chars}

Texts == UNION {TextsOfLen(n) : n \in 0..MaxLen}

\* Values of the -driver flag (main.go documents "postgres, sqlite").
Drivers == {"postgres", "sqlite"}

\* Values of the -dsn flag: absent, or some connection string.
DSNs == {"", ":memory:"}

\* Values of the -file flag: absent, a file that cannot be read, a file
\* that can.
Paths == {"", "missing.sql", "load.sql"}

\* ------------------------------------------------------------ error values
\* A Go error: the chain of context messages (outermost first), the root
\* cause reached by unwrapping (%w), and the errors only formatted into the
\* message (%v).  A root is the driver/OS call that failed and its position
\* in the call log.
Root(op, at) == [op |-> op, at |-> at]

Nil == [msg |-> <<>>, root |-> Root("nil", 0), also |-> {}]

\* The value of a result variable before the function has returned.
Unset == [msg |-> <<>>, root |-> Root("unset", 0), also |-> {}]

\* An error returned by the driver or the OS for call number `at`.
DriverErr(op, at) == [msg |-> <<>>, root |-> Root(op, at), also |-> {}]

\* fmt.Errorf(text) with no verb.
Errorf(text) == [msg |-> <<text>>, root |-> Root("new", 0), also |-> {}]

\* fmt.Errorf(text + ": %w", e)
Wrap(text, e) == [e EXCEPT !.msg = <<text>> \o @]

\* fmt.Errorf(text + ": %w (close error: %v)", e, c)
WrapWithClose(text, e, c) ==
  [msg |-> <<text>> \o e.msg, root |-> e.root, also |-> e.also \cup {c.root}]

\* ------------------------------------------------------- strings.TrimSpace
\* Faulty variant of TrimSpace: trailing white space is kept.
RECURSIVE TrimSpaceLeadingOnly(_)
TrimSpaceLeadingOnly(s) ==
  IF s # <<>> /\ Head(s) \in SpaceChars
  THEN TrimSpaceLeadingOnly(Tail(s))
  ELSE s

\* strings.TrimSpace: advance past leading white space, then back over
\* trailing white space.
RECURSIVE TrimLeft(_)
TrimLeft(s) ==
  IF s # <<>> /\ Head(s) \in SpaceChars THEN TrimLeft(Tail(s)) ELSE s

RECURSIVE TrimRight(_)
TrimRight(s) ==
  IF s # <<>> /\ s[Len(s)] \in SpaceChars
  THEN TrimRight(SubSeq(s, 1, Len(s) - 1))
  ELSE s

TrimSpace(s) == TrimRight(TrimLeft(s))

\* ----------------------------------------------------------- strings.Split
\* Faulty variant of Split: the text after the last ";" is dropped.
RECURSIVE SplitDropsTail(_)
SplitDropsTail(s) ==
  IF \E i \in 1..Len(s) : s[i] = ";"
  THEN LET i == CHOOSE k \in 1..Len(s) :
                  s[k] = ";" /\ \A j \in 1..(k - 1) : s[j] # ";"
       IN  <<SubSeq(s, 1, i - 1)>> \o SplitDropsTail(SubSeq(s, i + 1, Len(s)))
  ELSE <<>>

\* Faulty variant of Split: a ";" between an opening and a closing quote is
\* not a cut point.
RECURSIVE SplitOutsideQuotes(_)
SplitOutsideQuotes(s) ==
  LET outside(k) ==
        Cardinality({j \in 1..(k - 1) : s[j] = "'"}) % 2 = 0
      cuts == {k \in 1..Len(s) : s[k] = ";" /\ outside(k)}
  IN  IF cuts # {}
      THEN LET i == CHOOSE k \in cuts : \A j \in cuts : k <= j
           IN  <<SubSeq(s, 1, i - 1)>>
                 \o SplitOutsideQuotes(SubSeq(s, i + 1, Len(s)))
      ELSE <<s>>

\* Faulty variant of Split: the text is cut at its first ";" only.
SplitAtFirstOnly(s) ==
  IF \E i \in 1..Len(s) : s[i] = ";"
  THEN LET i == CHOOSE k \in 1..Len(s) :
                  s[k] = ";" /\ \A j \in 1..(k - 1) : s[j] # ";"
       IN  <<SubSeq(s, 1, i - 1), SubSeq(s, i + 1, Len(s))>>
  ELSE <<s>>

\* strings.Split(s, ";"): cut at each ";" from the left; the remainder after
\* the last ";" is the final fragment (n separators give n + 1 fragments).
RECURSIVE Split(_)
Split(s) ==
  IF \E i \in 1..Len(s) : s[i] = ";"
  THEN LET i == CHOOSE k \in 1..Len(s) :
                  s[k] = ";" /\ \A j \in 1..(k - 1) : s[j] # ";"
       IN  <<SubSeq(s, 1, i - 1)>> \o Split(SubSeq(s, i + 1, Len(s)))
  ELSE <<s>>

\* ------------------------------------------------------------------- state
VARIABLES
  entry,        \* what is invoked: the CLI ("main"), or Connect or
                \* LoadScript directly
  showVersion,  \* -version
  driver,       \* -driver
  dsn,          \* -dsn
  scriptFile,   \* -file
  fileContent,  \* content of the readable file load.sql
  pc,           \* position of the single thread of control
  script,       \* run: the loaded script / ExecuteScript: its argument
  statements,   \* ExecuteScript: the fragments strings.Split returned
  idx,          \* ExecuteScript: index of the range loop
  db,           \* the *sql.DB handle: "nil", "open" or "closed"
  pingErr,      \* Connect: the error db.Ping returned
  loadRet,      \* error LoadScript returned
  connRet,      \* what Connect returned: [db, err]
  execRet,      \* error ExecuteScript returned
  runErr,       \* error run returned
  calls,        \* log of calls made to the OS and the driver
  data,         \* database content: effects applied, in order
  dataAtCall,   \* database content when ExecuteScript was called
  stdout,       \* lines printed on standard output
  stderr,       \* lines printed on standard error
  exitCode      \* process exit status, -1 while running

vars == <<entry, showVersion, driver, dsn, scriptFile, fileContent, pc,
          script, statements, idx, db, pingErr, loadRet, connRet, execRet,
          runErr, calls, data, dataAtCall, stdout, stderr, exitCode>>

flags == <<entry, showVersion, driver, dsn, scriptFile, fileContent>>

\* One entry of the call log.
Call(op, arg, status) == [op |-> op, arg |-> arg, status |-> status]

\* Content of the database before the run: fresh, or one effect applied.
InitialData == {<<>>, << <<"a">> >>}

NoHandle == [db |-> "nil", err |-> Unset]

Init ==
  /\ entry \in {"main", "Connect", "LoadScript"}
  /\ driver \in IF entry = "LoadScript" THEN {"postgres"} ELSE Drivers
  /\ dsn \in IF entry = "LoadScript" THEN {""} ELSE DSNs
  /\ IF entry = "main"
     THEN /\ showVersion \in BOOLEAN
          /\ scriptFile \in Paths
          /\ fileContent \in Texts
     ELSE IF entry = "LoadScript"
     THEN /\ showVersion = FALSE
          /\ scriptFile \in Paths
          /\ fileContent \in Texts
     ELSE /\ showVersion = FALSE
          /\ scriptFile = ""
          /\ fileContent = <<>>
  /\ pc = IF entry = "main" THEN "run"
          ELSE IF entry = "LoadScript" THEN "CallLoadScript"
          ELSE "Connect"
  /\ script = <<>>
  /\ statements = <<>>
  /\ idx = 0
  /\ db = "nil"
  /\ pingErr = Unset
  /\ loadRet = Unset
  /\ connRet = NoHandle
  /\ execRet = Unset
  /\ runErr = Unset
  /\ calls = <<>>
  /\ data \in IF entry = "main" THEN InitialData ELSE {<<>>}
  /\ dataAtCall = <<>>
  /\ stdout = <<>>
  /\ stderr = <<>>
  /\ exitCode = -1

\* --------------------------------------------------------------- run, main
\* Faulty variant of RunFlags: after the flag checks run only announces the
\* load and returns, without loading or executing anything.
RunFlagsAnnounceOnly ==
  /\ pc = "run"
  /\ IF showVersion
     THEN /\ stdout' = Append(stdout, "version")
          /\ runErr' = Nil
     ELSE IF dsn = ""
     THEN /\ runErr' = Errorf("DSN is required (use -dsn flag)")
          /\ UNCHANGED stdout
     ELSE IF scriptFile = ""
     THEN /\ runErr' = Errorf("script file is required (use -file flag)")
          /\ UNCHANGED stdout
     ELSE /\ stdout' = Append(stdout, "Loading SQL script")
          /\ runErr' = Nil
  /\ pc' = "run_ret"
  /\ UNCHANGED <<flags, script, statements, idx, db, pingErr, loadRet,
                 connRet, execRet, calls, data, stderr, exitCode,
                 dataAtCall>>

\* Faulty variant of RunFlags: -version is looked at after the two required
\* flags.
RunFlagsVersionLast ==
  /\ pc = "run"
  /\ IF dsn = ""
     THEN /\ runErr' = Errorf("DSN is required (use -dsn flag)")
          /\ pc' = "run_ret"
          /\ UNCHANGED stdout
     ELSE IF scriptFile = ""
     THEN /\ runErr' = Errorf("script file is required (use -file flag)")
          /\ pc' = "run_ret"
          /\ UNCHANGED stdout
     ELSE IF showVersion
     THEN /\ stdout' = Append(stdout, "version")
          /\ runErr' = Nil
          /\ pc' = "run_ret"
     ELSE /\ pc' = "LoadScript"
          /\ UNCHANGED <<runErr, stdout>>
  /\ UNCHANGED <<flags, script, statements, idx, db, pingErr, loadRet,
                 connRet, execRet, calls, data, stderr, exitCode,
                 dataAtCall>>

\* Faulty variant of RunFlags: the -file flag is not checked.
RunFlagsNoFileCheck ==
  /\ pc = "run"
  /\ IF showVersion
     THEN /\ stdout' = Append(stdout, "version")
          /\ runErr' = Nil
          /\ pc' = "run_ret"
     ELSE IF dsn = ""
     THEN /\ runErr' = Errorf("DSN is required (use -dsn flag)")
          /\ pc' = "run_ret"
          /\ UNCHANGED stdout
     ELSE /\ pc' = "LoadScript"
          /\ UNCHANGED <<runErr, stdout>>
  /\ UNCHANGED <<flags, script, statements, idx, db, pingErr, loadRet,
                 connRet, execRet, calls, data, stderr, exitCode,
                 dataAtCall>>

\* run, up to the first call: flag.Parse and the three flag checks.
RunFlags ==
  /\ pc = "run"
  /\ IF showVersion
     THEN /\ stdout' = Append(stdout, "version")
          /\ runErr' = Nil
          /\ pc' = "run_ret"
     ELSE IF dsn = ""
     THEN /\ runErr' = Errorf("DSN is required (use -dsn flag)")
          /\ pc' = "run_ret"
          /\ UNCHANGED stdout
     ELSE IF scriptFile = ""
     THEN /\ runErr' = Errorf("script file is required (use -file flag)")
          /\ pc' = "run_ret"
          /\ UNCHANGED stdout
     ELSE /\ pc' = "LoadScript"
          /\ UNCHANGED <<runErr, stdout>>
  /\ UNCHANGED <<flags, script, statements, idx, db, pingErr, loadRet,
                 connRet, execRet, calls, data, stderr, exitCode,
                 dataAtCall>>

\* os.ReadFile as call number `at` of the log: only load.sql can be read.
ReadFile(path, at) ==
  IF path = "load.sql"
  THEN [content |-> fileContent, err |-> Nil]
  ELSE [content |-> <<>>, err |-> DriverErr("ReadFile", at)]

\* Faulty variant of LoadScript: the path is not checked before the read.
LoadScriptUnchecked(path, at) ==
  LET r == ReadFile(path, at)
  IN  IF r.err # Nil
      THEN [text |-> <<>>,
            err |-> Wrap("failed to read script file", r.err),
            read |-> TRUE]
      ELSE [text |-> r.content, err |-> Nil, read |-> TRUE]

\* Faulty variant of LoadScript: the content is trimmed before it is
\* returned.
LoadScriptTrims(path, at) ==
  IF path = ""
  THEN [text |-> <<>>, err |-> Errorf("script path cannot be empty"),
        read |-> FALSE]
  ELSE LET r == ReadFile(path, at)
       IN  IF r.err # Nil
           THEN [text |-> <<>>,
                 err |-> Wrap("failed to read script file", r.err),
                 read |-> TRUE]
           ELSE [text |-> TrimSpace(r.content), err |-> Nil, read |-> TRUE]

\* loader.LoadScript(path): the text and the error it returns, and whether
\* it got as far as reading the file.
LoadScript(path, at) ==
  IF path = ""
  THEN [text |-> <<>>, err |-> Errorf("script path cannot be empty"),
        read |-> FALSE]
  ELSE LET r == ReadFile(path, at)
       IN  IF r.err # Nil
           THEN [text |-> <<>>,
                 err |-> Wrap("failed to read script file", r.err),
                 read |-> TRUE]
           ELSE [text |-> r.content, err |-> Nil, read |-> TRUE]

\* A direct caller of LoadScript receives the text and the error.
CallerLoad ==
  /\ pc = "CallLoadScript"
  /\ LET r == LoadScript(scriptFile, Len(calls) + 1)
     IN  /\ script' = r.text
         /\ loadRet' = r.err
         /\ calls' = IF r.read
                     THEN Append(calls,
                            Call("ReadFile", <<>>,
                                 IF r.err = Nil THEN "ok" ELSE "err"))
                     ELSE calls
  /\ pc' = "done"
  /\ UNCHANGED <<flags, statements, idx, db, pingErr, connRet, execRet,
                 runErr, data, stdout, stderr, exitCode,
                 dataAtCall>>

\* run: the call of loader.LoadScript and the check of its error.
RunLoad ==
  /\ pc = "LoadScript"
  /\ LET r == LoadScript(scriptFile, Len(calls) + 1)
     IN  /\ loadRet' = r.err
         /\ calls' = IF r.read
                     THEN Append(calls,
                            Call("ReadFile", <<>>,
                                 IF r.err = Nil THEN "ok" ELSE "err"))
                     ELSE calls
         /\ IF r.err # Nil
            THEN /\ runErr' = Wrap("failed to load script", r.err)
                 /\ pc' = "run_ret"
                 /\ UNCHANGED script
            ELSE /\ script' = r.text
                 /\ pc' = "Connect"
                 /\ UNCHANGED runErr
  /\ UNCHANGED <<flags, statements, idx, db, pingErr, connRet, execRet,
                 data, stdout, stderr, exitCode,
                 dataAtCall>>

\* ----------------------------------------------------------------- Connect
\* Faulty variant of ConnectOpen: the DSN is not checked.
ConnectOpenUnchecked ==
  /\ pc = "Connect"
  /\ \E ok \in BOOLEAN :
       /\ calls' = Append(calls, Call("Open", <<>>, IF ok THEN "ok" ELSE "err"))
       /\ IF ok
          THEN /\ db' = "open"
               /\ pc' = "Ping"
               /\ UNCHANGED connRet
          ELSE /\ connRet' =
                    [db |-> "nil",
                     err |-> Wrap("failed to open database",
                                  DriverErr("Open", Len(calls) + 1))]
               /\ pc' = "Connect_ret"
               /\ UNCHANGED db
  /\ UNCHANGED <<flags, script, statements, idx, pingErr, loadRet, execRet,
                 runErr, data, stdout, stderr, exitCode,
                 dataAtCall>>

\* Faulty variant of ConnectOpen: the error of sql.Open is not checked and
\* the ping follows in any case.
ConnectOpenIgnoresErr ==
  /\ pc = "Connect"
  /\ IF dsn = ""
     THEN /\ connRet' = [db |-> "nil", err |-> Errorf("DSN cannot be empty")]
          /\ pc' = "Connect_ret"
          /\ UNCHANGED <<calls, db>>
     ELSE \E ok \in BOOLEAN :
            /\ calls' = Append(calls,
                          Call("Open", <<>>, IF ok THEN "ok" ELSE "err"))
            /\ db' = "open"
            /\ pc' = "Ping"
            /\ UNCHANGED connRet
  /\ UNCHANGED <<flags, script, statements, idx, pingErr, loadRet, execRet,
                 runErr, data, stdout, stderr, exitCode,
                 dataAtCall>>

\* Connect up to the return of sql.Open: the DSN check, then the open call,
\* which the driver may reject.
ConnectOpen ==
  /\ pc = "Connect"
  /\ IF dsn = ""
     THEN /\ connRet' = [db |-> "nil", err |-> Errorf("DSN cannot be empty")]
          /\ pc' = "Connect_ret"
          /\ UNCHANGED <<calls, db>>
     ELSE \E ok \in BOOLEAN :
            /\ calls' = Append(calls,
                          Call("Open", <<>>, IF ok THEN "ok" ELSE "err"))
            /\ IF ok
               THEN /\ db' = "open"
                    /\ pc' = "Ping"
                    /\ UNCHANGED connRet
               ELSE /\ connRet' =
                         [db |-> "nil",
                          err |-> Wrap("failed to open database",
                                       DriverErr("Open", Len(calls) + 1))]
                    /\ pc' = "Connect_ret"
                    /\ UNCHANGED db
  /\ UNCHANGED <<flags, script, statements, idx, pingErr, loadRet, execRet,
                 runErr, data, stdout, stderr, exitCode,
                 dataAtCall>>

\* Faulty variant of ConnectPing: the result of the ping is ignored.
ConnectPingIgnored ==
  /\ pc = "Ping"
  /\ \E ok \in BOOLEAN :
       /\ calls' = Append(calls, Call("Ping", <<>>, IF ok THEN "ok" ELSE "err"))
       /\ connRet' = [db |-> db, err |-> Nil]
       /\ pc' = "Connect_ret"
       /\ UNCHANGED pingErr
  /\ UNCHANGED <<flags, script, statements, idx, db, loadRet, execRet,
                 runErr, data, stdout, stderr, exitCode,
                 dataAtCall>>

\* Connect: db.Ping() and, when it succeeds, the return of the handle.
ConnectPing ==
  /\ pc = "Ping"
  /\ \E ok \in BOOLEAN :
       /\ calls' = Append(calls, Call("Ping", <<>>, IF ok THEN "ok" ELSE "err"))
       /\ IF ok
          THEN /\ connRet' = [db |-> db, err |-> Nil]
               /\ pc' = "Connect_ret"
               /\ UNCHANGED pingErr
          ELSE /\ pingErr' = DriverErr("Ping", Len(calls) + 1)
               /\ pc' = "PingClose"
               /\ UNCHANGED connRet
  /\ UNCHANGED <<flags, script, statements, idx, db, loadRet, execRet,
                 runErr, data, stdout, stderr, exitCode,
                 dataAtCall>>

\* Faulty variant of ConnectPingClose: the error of the close is discarded.
ConnectPingCloseDiscards ==
  /\ pc = "PingClose"
  /\ \E ok \in BOOLEAN :
       /\ calls' = Append(calls,
                     Call("Close", <<>>, IF ok THEN "ok" ELSE "err"))
       /\ db' = "closed"
       /\ connRet' = [db |-> "nil",
                      err |-> Wrap("failed to ping database", pingErr)]
       /\ pc' = "Connect_ret"
  /\ UNCHANGED <<flags, script, statements, idx, pingErr, loadRet, execRet,
                 runErr, data, stdout, stderr, exitCode,
                 dataAtCall>>

\* Connect after a failed ping: db.Close() and the error returned.
ConnectPingClose ==
  /\ pc = "PingClose"
  /\ \E ok \in BOOLEAN :
       /\ calls' = Append(calls,
                     Call("Close", <<>>, IF ok THEN "ok" ELSE "err"))
       /\ db' = "closed"
       /\ connRet' =
            [db |-> "nil",
             err |-> IF ok
                     THEN Wrap("failed to ping database", pingErr)
                     ELSE WrapWithClose("failed to ping database", pingErr,
                                        DriverErr("Close", Len(calls) + 1))]
       /\ pc' = "Connect_ret"
  /\ UNCHANGED <<flags, script, statements, idx, pingErr, loadRet, execRet,
                 runErr, data, stdout, stderr, exitCode,
                 dataAtCall>>

\* A direct caller of Connect receives its result.
CallerReturn ==
  /\ pc = "Connect_ret"
  /\ entry = "Connect"
  /\ pc' = "done"
  /\ UNCHANGED <<flags, script, statements, idx, db, pingErr, loadRet,
                 connRet, execRet, runErr, calls, data, stdout, stderr,
                 exitCode,
                 dataAtCall>>

\* Faulty variant of RunConnected: the close is deferred before Connect's
\* error is checked, so it also runs when Connect failed.
RunConnectedDefersFirst ==
  /\ pc = "Connect_ret"
  /\ entry = "main"
  /\ IF connRet.err # Nil
     THEN /\ runErr' = Wrap("failed to connect to database", connRet.err)
          /\ pc' = "defer"
          /\ UNCHANGED stdout
     ELSE /\ stdout' = Append(stdout, "Loading SQL script")
          /\ pc' = "ExecuteScript"
          /\ UNCHANGED runErr
  /\ UNCHANGED <<flags, script, statements, idx, db, pingErr, loadRet,
                 connRet, execRet, calls, data, stderr, exitCode,
                 dataAtCall>>

\* run: the check of Connect's error; on success the close is deferred and
\* the progress line printed.
RunConnected ==
  /\ pc = "Connect_ret"
  /\ entry = "main"
  /\ IF connRet.err # Nil
     THEN /\ runErr' = Wrap("failed to connect to database", connRet.err)
          /\ pc' = "run_ret"
          /\ UNCHANGED stdout
     ELSE /\ stdout' = Append(stdout, "Loading SQL script")
          /\ pc' = "ExecuteScript"
          /\ UNCHANGED runErr
  /\ UNCHANGED <<flags, script, statements, idx, db, pingErr, loadRet,
                 connRet, execRet, calls, data, stderr, exitCode,
                 dataAtCall>>

\* ----------------------------------------------------------- ExecuteScript
\* ExecuteScript before the loop: trim the script, return on an empty one,
\* split the rest.
ExecuteScript ==
  /\ pc = "ExecuteScript"
  /\ dataAtCall' = data
  /\ LET s == TrimSpace(script)
     IN  IF s = <<>>
         THEN /\ execRet' = Nil
              /\ pc' = "ExecuteScript_ret"
              /\ UNCHANGED <<statements, idx>>
         ELSE /\ statements' = Split(s)
              /\ idx' = 1
              /\ pc' = "loop"
              /\ UNCHANGED execRet
  /\ UNCHANGED <<flags, script, db, pingErr, loadRet, connRet, runErr, calls,
                 data, stdout, stderr, exitCode>>

\* Faulty variant of ExecLoop: a fragment that trims to nothing is submitted
\* like any other.
ExecLoopSubmitsEmpty ==
  /\ pc = "loop"
  /\ IF idx > Len(statements)
     THEN /\ execRet' = Nil
          /\ pc' = "ExecuteScript_ret"
          /\ UNCHANGED <<idx, calls>>
     ELSE /\ calls' = Append(calls,
                        Call("Exec", TrimSpace(statements[idx]), "pending"))
          /\ pc' = "Exec"
          /\ UNCHANGED <<idx, execRet>>
  /\ UNCHANGED <<flags, script, statements, db, pingErr, loadRet, connRet,
                 runErr, data, stdout, stderr, exitCode,
                 dataAtCall>>

\* Faulty variant of ExecLoop: the statement is submitted without waiting
\* for its completion.
ExecLoopAsync ==
  /\ pc = "loop"
  /\ IF idx > Len(statements)
     THEN /\ execRet' = Nil
          /\ pc' = "ExecuteScript_ret"
          /\ UNCHANGED <<idx, calls>>
     ELSE LET stmt == TrimSpace(statements[idx])
          IN  /\ idx' = idx + 1
              /\ calls' = IF stmt = <<>> THEN calls
                          ELSE Append(calls, Call("Exec", stmt, "pending"))
              /\ UNCHANGED <<pc, execRet>>
  /\ UNCHANGED <<flags, script, statements, db, pingErr, loadRet, connRet,
                 runErr, data, stdout, stderr, exitCode,
                 dataAtCall>>

\* Faulty variant of ExecLoop: the fragment is submitted as it was cut,
\* without its white space removed.
ExecLoopSubmitsUntrimmed ==
  /\ pc = "loop"
  /\ IF idx > Len(statements)
     THEN /\ execRet' = Nil
          /\ pc' = "ExecuteScript_ret"
          /\ UNCHANGED <<idx, calls>>
     ELSE IF TrimSpace(statements[idx]) = <<>>
          THEN /\ idx' = idx + 1
               /\ UNCHANGED <<pc, execRet, calls>>
          ELSE /\ calls' = Append(calls,
                             Call("Exec", statements[idx], "pending"))
               /\ pc' = "Exec"
               /\ UNCHANGED <<idx, execRet>>
  /\ UNCHANGED <<flags, script, statements, db, pingErr, loadRet, connRet,
                 runErr, data, stdout, stderr, exitCode,
                 dataAtCall>>

\* One iteration of the range loop up to the call of db.Exec: past the last
\* fragment return nil, skip a fragment that trims to nothing, submit any
\* other.
ExecLoop ==
  /\ pc = "loop"
  /\ IF idx > Len(statements)
     THEN /\ execRet' = Nil
          /\ pc' = "ExecuteScript_ret"
          /\ UNCHANGED <<idx, calls>>
     ELSE LET stmt == TrimSpace(statements[idx])
          IN  IF stmt = <<>>
              THEN /\ idx' = idx + 1
                   /\ UNCHANGED <<pc, execRet, calls>>
              ELSE /\ calls' = Append(calls, Call("Exec", stmt, "pending"))
                   /\ pc' = "Exec"
                   /\ UNCHANGED <<idx, execRet>>
  /\ UNCHANGED <<flags, script, statements, db, pingErr, loadRet, connRet,
                 runErr, data, stdout, stderr, exitCode,
                 dataAtCall>>

\* Faulty variant of ExecDone: a failed statement is passed over and the loop
\* goes on.
ExecDoneContinues ==
  /\ pc = "Exec"
  /\ \E ok \in BOOLEAN :
       /\ calls' = [calls EXCEPT
                      ![Len(calls)].status = IF ok THEN "ok" ELSE "err"]
       /\ data' = IF ok THEN Append(data, calls[Len(calls)].arg) ELSE data
       /\ idx' = idx + 1
       /\ pc' = "loop"
       /\ UNCHANGED execRet
  /\ UNCHANGED <<flags, script, statements, db, pingErr, loadRet, connRet,
                 runErr, stdout, stderr, exitCode,
                 dataAtCall>>

\* Faulty variant of ExecDone: the script runs in a transaction that is
\* rolled back when a statement fails.
ExecDoneRollsBack ==
  /\ pc = "Exec"
  /\ \E ok \in BOOLEAN :
       /\ IF ok
          THEN /\ calls' = [calls EXCEPT ![Len(calls)].status = "ok"]
               /\ data' = Append(data, calls[Len(calls)].arg)
               /\ idx' = idx + 1
               /\ pc' = "loop"
               /\ UNCHANGED execRet
          ELSE /\ calls' = Append([calls EXCEPT ![Len(calls)].status = "err"],
                                  Call("Rollback", <<>>, "ok"))
               /\ data' = dataAtCall
               /\ execRet' = Wrap("failed to execute statement",
                                  DriverErr("Exec", Len(calls)))
               /\ pc' = "ExecuteScript_ret"
               /\ UNCHANGED idx
  /\ UNCHANGED <<flags, script, statements, db, pingErr, loadRet, connRet,
                 runErr, stdout, stderr, exitCode,
                 dataAtCall>>

\* Faulty variant of ExecDone: the first statement that fails is submitted
\* a second time.
ExecDoneRetriesOnce ==
  /\ pc = "Exec"
  /\ \E ok \in BOOLEAN :
       /\ calls' = [calls EXCEPT
                      ![Len(calls)].status = IF ok THEN "ok" ELSE "err"]
       /\ IF ok
          THEN /\ data' = Append(data, calls[Len(calls)].arg)
               /\ idx' = idx + 1
               /\ pc' = "loop"
               /\ UNCHANGED execRet
          ELSE IF \A i \in 1..(Len(calls) - 1) : calls[i].status # "err"
          THEN /\ pc' = "loop"
               /\ UNCHANGED <<data, idx, execRet>>
          ELSE /\ execRet' = Wrap("failed to execute statement",
                                  DriverErr("Exec", Len(calls)))
               /\ pc' = "ExecuteScript_ret"
               /\ UNCHANGED <<data, idx>>
  /\ UNCHANGED <<flags, script, statements, db, pingErr, loadRet, connRet,
                 runErr, stdout, stderr, exitCode,
                 dataAtCall>>

\* Faulty variant of ExecDone: the driver's error is formatted into the
\* message instead of being wrapped.
ExecDoneLosesCause ==
  /\ pc = "Exec"
  /\ \E ok \in BOOLEAN :
       /\ calls' = [calls EXCEPT
                      ![Len(calls)].status = IF ok THEN "ok" ELSE "err"]
       /\ IF ok
          THEN /\ data' = Append(data, calls[Len(calls)].arg)
               /\ idx' = idx + 1
               /\ pc' = "loop"
               /\ UNCHANGED execRet
          ELSE /\ execRet' = Errorf("failed to execute statement")
               /\ pc' = "ExecuteScript_ret"
               /\ UNCHANGED <<data, idx>>
  /\ UNCHANGED <<flags, script, statements, db, pingErr, loadRet, connRet,
                 runErr, stdout, stderr, exitCode,
                 dataAtCall>>

\* Faulty variant of ExecDone: the connection is closed when a statement
\* fails.
ExecDoneClosesOnError ==
  /\ pc = "Exec"
  /\ \E ok \in BOOLEAN :
       /\ IF ok
          THEN /\ calls' = [calls EXCEPT ![Len(calls)].status = "ok"]
               /\ data' = Append(data, calls[Len(calls)].arg)
               /\ idx' = idx + 1
               /\ pc' = "loop"
               /\ UNCHANGED <<execRet, db>>
          ELSE /\ calls' = Append([calls EXCEPT ![Len(calls)].status = "err"],
                                  Call("Close", <<>>, "ok"))
               /\ db' = "closed"
               /\ execRet' = Wrap("failed to execute statement",
                                  DriverErr("Exec", Len(calls)))
               /\ pc' = "ExecuteScript_ret"
               /\ UNCHANGED <<data, idx>>
  /\ UNCHANGED <<flags, script, statements, pingErr, loadRet, connRet,
                 runErr, stdout, stderr, exitCode,
                 dataAtCall>>

\* db.Exec returns: on success the statement has taken effect and the loop
\* goes on; on failure the statement has no effect and ExecuteScript returns
\* the wrapped error.
ExecDone ==
  /\ pc = "Exec"
  /\ \E ok \in BOOLEAN :
       /\ calls' = [calls EXCEPT
                      ![Len(calls)].status = IF ok THEN "ok" ELSE "err"]
       /\ IF ok
          THEN /\ data' = Append(data, calls[Len(calls)].arg)
               /\ idx' = idx + 1
               /\ pc' = "loop"
               /\ UNCHANGED execRet
          ELSE /\ execRet' = Wrap("failed to execute statement",
                                  DriverErr("Exec", Len(calls)))
               /\ pc' = "ExecuteScript_ret"
               /\ UNCHANGED <<data, idx>>
  /\ UNCHANGED <<flags, script, statements, db, pingErr, loadRet, connRet,
                 runErr, stdout, stderr, exitCode,
                 dataAtCall>>

\* Faulty variant of RunExecuted: on a failed script run ends at once,
\* leaving the deferred close out.
RunExecutedExits ==
  /\ pc = "ExecuteScript_ret"
  /\ IF execRet # Nil
     THEN /\ runErr' = Wrap("failed to execute script", execRet)
          /\ pc' = "run_ret"
          /\ UNCHANGED stdout
     ELSE /\ runErr' = Nil
          /\ pc' = "defer"
          /\ stdout' = Append(stdout, "Script executed successfully")
  /\ UNCHANGED <<flags, script, statements, idx, db, pingErr, loadRet,
                 connRet, execRet, calls, data, stderr, exitCode,
                 dataAtCall>>

\* run: the check of ExecuteScript's error and the return statement; the
\* deferred close runs next.
RunExecuted ==
  /\ pc = "ExecuteScript_ret"
  /\ IF execRet # Nil
     THEN /\ runErr' = Wrap("failed to execute script", execRet)
          /\ UNCHANGED stdout
     ELSE /\ runErr' = Nil
          /\ stdout' = Append(stdout, "Script executed successfully")
  /\ pc' = "defer"
  /\ UNCHANGED <<flags, script, statements, idx, db, pingErr, loadRet,
                 connRet, execRet, calls, data, stderr, exitCode,
                 dataAtCall>>

\* Faulty variant of RunDeferredClose: a failed close becomes the error run
\* returns.
RunDeferredCloseOverrides ==
  /\ pc = "defer"
  /\ \E ok \in BOOLEAN :
       /\ calls' = Append(calls,
                     Call("Close", <<>>, IF ok THEN "ok" ELSE "err"))
       /\ db' = "closed"
       /\ runErr' = IF ok THEN runErr
                    ELSE Wrap("failed to close database",
                              DriverErr("Close", Len(calls) + 1))
  /\ pc' = "run_ret"
  /\ UNCHANGED <<flags, script, statements, idx, pingErr, loadRet, connRet,
                 execRet, data, stdout, stderr, exitCode,
                 dataAtCall>>

\* run's deferred function: db.Close(), with a warning when it fails.
RunDeferredClose ==
  /\ pc = "defer"
  /\ \E ok \in BOOLEAN :
       /\ calls' = Append(calls,
                     Call("Close", <<>>, IF ok THEN "ok" ELSE "err"))
       /\ db' = "closed"
       /\ stderr' = IF ok THEN stderr
                    ELSE Append(stderr, "Warning: failed to close database")
  /\ pc' = "run_ret"
  /\ UNCHANGED <<flags, script, statements, idx, pingErr, loadRet, connRet,
                 execRet, runErr, data, stdout, exitCode,
                 dataAtCall>>

\* Faulty variant of Main: the error is reported but the exit status is
\* left at 0.
MainExitsZero ==
  /\ pc = "run_ret"
  /\ stderr' = IF runErr # Nil THEN Append(stderr, "Error") ELSE stderr
  /\ exitCode' = 0
  /\ pc' = "done"
  /\ UNCHANGED <<flags, script, statements, idx, db, pingErr, loadRet,
                 connRet, execRet, runErr, calls, data, stdout,
                 dataAtCall>>

\* main: report run's error and set the exit status.
Main ==
  /\ pc = "run_ret"
  /\ IF runErr # Nil
     THEN /\ stderr' = Append(stderr, "Error")
          /\ exitCode' = 1
     ELSE /\ exitCode' = 0
          /\ UNCHANGED stderr
  /\ pc' = "done"
  /\ UNCHANGED <<flags, script, statements, idx, db, pingErr, loadRet,
                 connRet, execRet, runErr, calls, data, stdout,
                 dataAtCall>>

Next ==
  \/ RunFlags
  \/ RunLoad
  \/ CallerLoad
  \/ ConnectOpen
  \/ ConnectPing
  \/ ConnectPingClose
  \/ CallerReturn
  \/ RunConnected
  \/ ExecuteScript
  \/ ExecLoop
  \/ ExecDone
  \/ RunExecuted
  \/ RunDeferredClose
  \/ Main

Spec == Init /\ [][Next]_vars

\* ------------------------------------------------- reading the call log
\* Positions of the log holding a call of the given operation.
CallsOf(op) == {i \in 1..Len(calls) : calls[i].op = op}

RECURSIVE Ascending(_)
Ascending(S) ==
  IF S = {} THEN <<>>
  ELSE LET m == CHOOSE x \in S : \A y \in S : x <= y
       IN  <<m>> \o Ascending(S \ {m})

\* The statements submitted to db.Exec so far, in order of submission.
Issued ==
  LET at == Ascending(CallsOf("Exec"))
  IN  [k \in 1..Len(at) |-> calls[at[k]].arg]

\* Positions of the log holding an Exec call that failed.
FailedExecs == {i \in CallsOf("Exec") : calls[i].status = "err"}

\* ExecuteScript has returned.
Returned == execRet # Unset

\* ------------------------------------------- the statements of a script text
\* Stated on positions of the text, independently of Split and TrimSpace:
\* a fragment lies between two neighbouring cut points (a ";" or either end
\* of the text); its statement runs from its first to its last character
\* that is not white space, and a fragment without such a character has none.
Cuts(s) == {0, Len(s) + 1} \cup {i \in 1..Len(s) : s[i] = ";"}

Ink(s, a) ==
  LET b == CHOOSE c \in Cuts(s) : c > a /\ \A d \in Cuts(s) : d > a => c <= d
  IN  {i \in (a + 1)..(b - 1) : s[i] \notin SpaceChars}

StatementOf(s, a) ==
  LET lo == CHOOSE i \in Ink(s, a) : \A j \in Ink(s, a) : i <= j
      hi == CHOOSE i \in Ink(s, a) : \A j \in Ink(s, a) : i >= j
  IN  SubSeq(s, lo, hi)

ExpectedStatements(s) ==
  LET starts == Ascending({a \in Cuts(s) : a <= Len(s) /\ Ink(s, a) # {}})
  IN  [k \in 1..Len(starts) |-> StatementOf(s, starts[k])]

\* The text holds nothing but white space and ";".
Blank(s) == \A i \in 1..Len(s) : s[i] \in SpaceChars \cup {";"}

\* ------------------------------------------------------------------ claims

\* C1: for a non-empty script all of whose statements succeed, the
\* statements submitted to db.Exec are, in order, the script's fragments
\* between ";" characters, trimmed, without the empty ones.
C1_IssuedEqualsSplitTrimmed ==
  (execRet = Nil /\ script # <<>>) => Issued = ExpectedStatements(script)

\* C1 witness: a successful execution of two different statements taken from
\* a script that also holds white space.
C1_Witness ==
  /\ execRet = Nil
  /\ Len(Issued) = 2
  /\ Issued[1] # Issued[2]
  /\ \E i \in 1..Len(script) : script[i] \in SpaceChars

\* C2: the first statement that fails is the last one ever submitted, every
\* statement before it succeeded, and ExecuteScript returns an error.
C2_StopsAtFirstFailure ==
  \A k \in FailedExecs :
    /\ \A j \in CallsOf("Exec") : j <= k /\ (j < k => calls[j].status = "ok")
    /\ Returned
    /\ execRet # Nil

\* C2 witness: the run is over, a statement failed, and the script had
\* another statement after it.
C2_Witness ==
  /\ pc = "done"
  /\ FailedExecs # {}
  /\ Len(Issued) < Len(ExpectedStatements(script))

\* C3: a script of white space and ";" only never has a statement submitted,
\* and ExecuteScript returns success for it.
C3_BlankScriptIssuesNothing ==
  Blank(script) =>
    /\ CallsOf("Exec") = {}
    /\ execRet \in {Unset, Nil}
    /\ (pc \in {"ExecuteScript_ret", "defer"} => execRet = Nil)

\* C3 witness: ExecuteScript has returned for a script made of both ";" and
\* white space.
C3_Witness ==
  /\ Returned
  /\ Blank(script)
  /\ \E i, j \in 1..Len(script) : script[i] = ";" /\ script[j] \in SpaceChars

\* C4: when a statement fails, the database holds what it held at the call
\* followed by the effects of the statements that succeeded before it, and
\* nothing of the failing one; no transaction call is ever made.
C4_NoRollbackOnFailure ==
  /\ \A i \in 1..Len(calls) :
       calls[i].op \in {"ReadFile", "Open", "Ping", "Exec", "Close"}
  /\ \A k \in FailedExecs :
       data = dataAtCall \o SubSeq(Issued, 1, Len(Issued) - 1)

\* C4 witness: the run is over, the second statement failed and the first
\* one's effect is in the database.
C4_Witness ==
  /\ pc = "done"
  /\ FailedExecs # {}
  /\ Len(Issued) = 2
  /\ data = Append(dataAtCall, Issued[1])

\* C5: when no statement fails, ExecuteScript returns success and the
\* database holds what it held at the call followed by the effect of every
\* statement of the script, once each, in script order.
C5_AllEffectsApplied ==
  (Returned /\ FailedExecs = {}) =>
    /\ execRet = Nil
    /\ data = dataAtCall \o ExpectedStatements(script)

\* C5 witness: ExecuteScript returned success after two statements on a
\* database that already had content.
C5_Witness ==
  /\ execRet = Nil
  /\ dataAtCall # <<>>
  /\ Len(data) = Len(dataAtCall) + 2

\* C6: at most one statement is in flight, and a statement is submitted only
\* when every statement submitted before it has completed successfully.
C6_StrictlySequential ==
  /\ Cardinality({i \in CallsOf("Exec") : calls[i].status = "pending"}) <= 1
  /\ \A i, j \in CallsOf("Exec") : i < j => calls[i].status = "ok"

\* C6 witness: the second statement is in flight.
C6_Witness ==
  /\ pc = "Exec"
  /\ Cardinality(CallsOf("Exec")) = 2

\* C7: a CLI run opens the connection at most once, and when Connect handed
\* it a handle the run ends with that handle closed by exactly one Close.
C7_ClosedExactlyOnce ==
  entry = "main" =>
    /\ Cardinality(CallsOf("Open")) <= 1
    /\ Cardinality(CallsOf("Close")) <= 1
    /\ (pc = "done" /\ connRet.err = Nil) =>
         (Cardinality(CallsOf("Close")) = 1 /\ db = "closed")

\* C7 witness: a CLI run that ended after a statement failed, with the
\* handle closed.
C7_Witness ==
  /\ entry = "main"
  /\ pc = "done"
  /\ FailedExecs # {}
  /\ db = "closed"

\* C8: when the ping fails Connect closes the handle once, returns no handle
\* and returns an error whose cause is the ping error; when that close fails
\* too the error also carries the close error.
C8_PingFailureReleases ==
  \A p \in CallsOf("Ping") :
    (calls[p].status = "err" /\ connRet.err # Unset) =>
      /\ Cardinality(CallsOf("Close")) = 1
      /\ \A c \in CallsOf("Close") :
           /\ c > p
           /\ calls[c].status = "err" => Root("Close", c) \in connRet.err.also
           /\ calls[c].status = "ok" => connRet.err.also = {}
      /\ connRet.db = "nil"
      /\ connRet.err.root = Root("Ping", p)
      /\ connRet.err.msg = <<"failed to ping database">>

\* C8 witness: Connect has returned after both the ping and the close failed.
C8_Witness ==
  /\ pc = "Connect_ret"
  /\ \E p \in CallsOf("Ping") : calls[p].status = "err"
  /\ \E c \in CallsOf("Close") : calls[c].status = "err"

\* C9: with an empty connection string Connect returns the configuration
\* error and no handle, and the driver is never opened, pinged or closed.
C9_EmptyDSNRejected ==
  dsn = "" =>
    /\ CallsOf("Open") \cup CallsOf("Ping") \cup CallsOf("Close") = {}
    /\ db = "nil"
    /\ pc \in {"Connect_ret", "done"} /\ entry = "Connect" =>
         connRet = [db |-> "nil", err |-> Errorf("DSN cannot be empty")]

\* C9 witness: Connect was called with an empty connection string and has
\* returned.
C9_Witness ==
  /\ entry = "Connect"
  /\ dsn = ""
  /\ pc = "Connect_ret"
  /\ connRet.err # Unset

\* C10: when Connect returns success the handle is open, was opened by one
\* successful Open, passed exactly one Ping, and no Close was called.
C10_SuccessMeansOpenAndPinged ==
  (pc = "Connect_ret" /\ connRet.err = Nil) =>
    /\ connRet.db = "open"
    /\ db = "open"
    /\ Cardinality(CallsOf("Open")) = 1
    /\ Cardinality(CallsOf("Ping")) = 1
    /\ \A i \in CallsOf("Open") \cup CallsOf("Ping") : calls[i].status = "ok"
    /\ CallsOf("Close") = {}

\* C10 witness: Connect has just returned a handle.
C10_Witness ==
  /\ pc = "Connect_ret"
  /\ connRet.err = Nil
  /\ connRet.db = "open"

\* C11: LoadScript returns an error and the empty text for an empty path,
\* without reading anything, and for a file that cannot be read, where the
\* error wraps the error of the read.
C11_LoadScriptFailures ==
  (loadRet # Unset /\ scriptFile # "load.sql") =>
    /\ loadRet # Nil
    /\ script = <<>>
    /\ scriptFile = "" =>
         /\ CallsOf("ReadFile") = {}
         /\ loadRet = Errorf("script path cannot be empty")
    /\ scriptFile # "" =>
         /\ Cardinality(CallsOf("ReadFile")) = 1
         /\ \A i \in CallsOf("ReadFile") :
              /\ calls[i].status = "err"
              /\ loadRet = Wrap("failed to read script file",
                                DriverErr("ReadFile", i))

\* C11 witness: LoadScript was called with the empty path and has returned.
C11_Witness ==
  /\ entry = "LoadScript"
  /\ scriptFile = ""
  /\ pc = "done"
  /\ loadRet # Nil

\* C12: the text LoadScript returns for a readable file is the content of
\* the file, character for character, and no step changes the file.
C12_LoadScriptReturnsContent ==
  [][/\ fileContent' = fileContent
     /\ (loadRet' = Nil => script' = fileContent')]_vars

\* C12 witness: LoadScript has returned a text that begins and ends with
\* white space and holds a ";".
C12_Witness ==
  /\ loadRet = Nil
  /\ Len(script) >= 3
  /\ script[1] \in SpaceChars
  /\ script[Len(script)] \in SpaceChars
  /\ \E i \in 1..Len(script) : script[i] = ";"

\* A CLI run that asks for no version and names both a DSN and a file.
ValidFlags ==
  entry = "main" /\ ~showVersion /\ dsn # "" /\ scriptFile # ""

\* run has returned.
RunReturned == entry = "main" /\ pc \in {"run_ret", "done"}

\* C13: in a CLI run with valid flags the file is read before the
\* connection is opened and the connection is opened before any statement
\* is submitted; run returns the error of the first phase that failed, and
\* success only after every statement of the script was executed.
C13_LoadConnectExecute ==
  ValidFlags =>
    /\ \A r \in CallsOf("ReadFile") : \A o \in CallsOf("Open") : r < o
    /\ \A o \in CallsOf("Open") : \A e \in CallsOf("Exec") : o < e
    /\ CallsOf("Open") # {} => Cardinality(CallsOf("ReadFile")) = 1
    /\ CallsOf("Exec") # {} => Cardinality(CallsOf("Open")) = 1
    /\ RunReturned =>
         /\ Cardinality(CallsOf("ReadFile")) = 1
         /\ loadRet = Nil => Cardinality(CallsOf("Open")) = 1
         /\ runErr =
              IF loadRet # Nil
              THEN Wrap("failed to load script", loadRet)
              ELSE IF connRet.err # Nil
              THEN Wrap("failed to connect to database", connRet.err)
              ELSE IF execRet # Nil
              THEN Wrap("failed to execute script", execRet)
              ELSE Nil
         /\ runErr = Nil =>
              /\ Issued = ExpectedStatements(script)
              /\ \A e \in CallsOf("Exec") : calls[e].status = "ok"

\* C13 witness: a run with valid flags has returned success after reading,
\* connecting and executing two statements.
C13_Witness ==
  /\ ValidFlags
  /\ RunReturned
  /\ runErr = Nil
  /\ Len(Issued) = 2

\* C14: a CLI run with -version prints the version and ends with success
\* and makes no call to the file system or the driver, whatever the other
\* flags are.
C14_VersionTouchesNothing ==
  (entry = "main" /\ showVersion) =>
    /\ calls = <<>>
    /\ db = "nil"
    /\ pc # "run" => (runErr = Nil /\ stdout = <<"version">>)
    /\ pc = "done" => (exitCode = 0 /\ stderr = <<>>)

\* C14 witness: a run with -version and neither DSN nor file has ended.
C14_Witness ==
  /\ entry = "main"
  /\ showVersion
  /\ dsn = ""
  /\ scriptFile = ""
  /\ pc = "done"

\* C15: a CLI run without -version and with an empty DSN or an empty file
\* returns the configuration error and makes no call to the file system or
\* the driver.
C15_MissingFlagRejected ==
  (entry = "main" /\ ~showVersion /\ (dsn = "" \/ scriptFile = "")) =>
    /\ calls = <<>>
    /\ db = "nil"
    /\ pc # "run" =>
         /\ pc \in {"run_ret", "done"}
         /\ runErr = IF dsn = ""
                     THEN Errorf("DSN is required (use -dsn flag)")
                     ELSE Errorf("script file is required (use -file flag)")

\* C15 witness: a run with a DSN and no file has returned.
C15_Witness ==
  /\ entry = "main"
  /\ ~showVersion
  /\ dsn # ""
  /\ scriptFile = ""
  /\ pc = "run_ret"

\* C16: when the close at the end of a run fails, a warning is written to
\* the error stream and the run's result stays what the script execution
\* made it.
C16_CloseFailureIsWarning ==
  (RunReturned /\ connRet.err = Nil
     /\ \E c \in CallsOf("Close") : calls[c].status = "err") =>
    /\ \E i \in 1..Len(stderr) :
         stderr[i] = "Warning: failed to close database"
    /\ runErr = IF execRet = Nil THEN Nil
                ELSE Wrap("failed to execute script", execRet)
    /\ pc = "done" => (exitCode = 0 <=> execRet = Nil)

\* C16 witness: a run whose script succeeded and whose close failed has
\* ended with exit status 0.
C16_Witness ==
  /\ entry = "main"
  /\ pc = "done"
  /\ execRet = Nil
  /\ \E c \in CallsOf("Close") : calls[c].status = "err"
  /\ exitCode = 0

\* Some call to the file system or the driver failed, the final close
\* included.
AnyCallFailed == \E i \in 1..Len(calls) : calls[i].status = "err"

\* A required flag is missing.
ConfigurationError ==
  entry = "main" /\ ~showVersion /\ (dsn = "" \/ scriptFile = "")

\* The configuration is wrong or a read, open, ping or statement failed.
PhaseFailed ==
  \/ ConfigurationError
  \/ \E i \in 1..Len(calls) :
       calls[i].status = "err"
         /\ calls[i].op \in {"ReadFile", "Open", "Ping", "Exec"}

\* C17 as stated: the exit status is 0 exactly when no phase failed, the
\* final close included, and an error line is written otherwise.
C17_ExitCodeAnyPhase ==
  (entry = "main" /\ pc = "done") =>
    /\ exitCode = 0 <=> ~(ConfigurationError \/ AnyCallFailed)
    /\ exitCode # 0 => stderr[Len(stderr)] = "Error"

\* C17 amended: the exit status is 0 exactly when run returned no error,
\* that is when neither the configuration, the load, the connect nor the
\* execution failed; otherwise it is 1 and the error line is the last thing
\* written to the error stream.  A failure of the final close alone leaves
\* the exit status at 0.
C17_ExitCodeFollowsRun ==
  (entry = "main" /\ pc = "done") =>
    /\ exitCode \in {0, 1}
    /\ exitCode = 0 <=> runErr = Nil
    /\ runErr = Nil <=> ~PhaseFailed
    /\ exitCode # 0 => (stderr # <<>> /\ stderr[Len(stderr)] = "Error")
    /\ exitCode = 0 => \A i \in 1..Len(stderr) : stderr[i] # "Error"

\* C17 witness: a run that executed one statement and failed only to close
\* the connection has ended with exit status 0 and a warning.
C17_Witness ==
  /\ entry = "main"
  /\ pc = "done"
  /\ Len(Issued) = 1
  /\ ~PhaseFailed
  /\ AnyCallFailed
  /\ exitCode = 0
  /\ stderr = <<"Warning: failed to close database">>

\* C18: nothing is retried: the k-th statement submitted is the k-th
\* statement of the script, nothing is submitted after a statement that
\* failed, and the driver is opened and pinged at most once.
C18_NoRetry ==
  /\ Len(Issued) <= Len(ExpectedStatements(script))
  /\ \A k \in 1..Len(Issued) : Issued[k] = ExpectedStatements(script)[k]
  /\ \A k \in FailedExecs : \A j \in CallsOf("Exec") : j <= k
  /\ Cardinality(CallsOf("Open")) <= 1
  /\ Cardinality(CallsOf("Ping")) <= 1

\* C18 witness: the run is over after the only statement of the script
\* failed, with one open and one ping.
C18_Witness ==
  /\ pc = "done"
  /\ FailedExecs # {}
  /\ Len(ExpectedStatements(script)) = 1
  /\ Cardinality(CallsOf("Open")) = 1
  /\ Cardinality(CallsOf("Ping")) = 1

\* The ";" at position i of the text lies inside a quoted literal.
InQuotes(s, i) ==
  /\ Cardinality({j \in 1..(i - 1) : s[j] = "'"}) % 2 = 1
  /\ \E j \in (i + 1)..Len(s) : s[j] = "'"

\* C19: no submitted statement holds a ";", and every ";" of the script,
\* quoted or not, separates the statements submitted for the text before it
\* from the statements submitted for the text after it.
C19_SplitIsLexical ==
  /\ \A e \in CallsOf("Exec") :
       \A i \in 1..Len(calls[e].arg) : calls[e].arg[i] # ";"
  /\ execRet = Nil =>
       \A i \in 1..Len(script) :
         script[i] = ";" =>
           Issued = ExpectedStatements(SubSeq(script, 1, i - 1))
                      \o ExpectedStatements(SubSeq(script, i + 1, Len(script)))

\* C19 witness: a script with a ";" inside a quoted literal was executed as
\* two statements.
C19_Witness ==
  /\ execRet = Nil
  /\ \E i \in 1..Len(script) : script[i] = ";" /\ InQuotes(script, i)
  /\ Len(Issued) = 2

\* C20: the error run returns for a failed load, connect or execution
\* starts with the context of that phase and has the failed call as its
\* cause; the error of ExecuteScript has as its cause the driver's error for
\* the statement that failed.
C20_ErrorsKeepCause ==
  /\ execRet \notin {Unset, Nil} =>
       /\ FailedExecs # {}
       /\ \A k \in FailedExecs :
            execRet = Wrap("failed to execute statement", DriverErr("Exec", k))
  /\ (RunReturned /\ ValidFlags /\ runErr # Nil) =>
       /\ calls[runErr.root.at].status = "err"
       /\ calls[runErr.root.at].op = runErr.root.op
       /\ runErr.msg[1] =
            IF runErr.root.op = "ReadFile" THEN "failed to load script"
            ELSE IF runErr.root.op \in {"Open", "Ping"}
            THEN "failed to connect to database"
            ELSE "failed to execute script"
       /\ runErr.root.op \in {"ReadFile", "Open", "Ping", "Exec"}
       /\ \A i \in 1..Len(calls) :
            (calls[i].status = "err" /\ calls[i].op # "Close") =>
              runErr.root = Root(calls[i].op, i)

\* C20 witness: run has returned the error of the second statement.
C20_Witness ==
  /\ RunReturned
  /\ runErr # Nil
  /\ runErr.root.op = "Exec"
  /\ Cardinality(CallsOf("Exec")) = 2

\* C21: when sql.Open fails Connect returns the open error and no handle at
\* once; the driver is neither pinged nor closed, and a ping is only ever
\* made after a successful open.
C21_OpenFailureStops ==
  /\ \A o \in CallsOf("Open") :
       calls[o].status = "err" =>
         /\ CallsOf("Ping") = {}
         /\ CallsOf("Close") = {}
         /\ db = "nil"
         /\ connRet = [db |-> "nil",
                       err |-> Wrap("failed to open database",
                                    DriverErr("Open", o))]
  /\ \A p \in CallsOf("Ping") :
       \E o \in CallsOf("Open") : o < p /\ calls[o].status = "ok"

\* C21 witness: Connect has just returned after sql.Open failed.
C21_Witness ==
  /\ pc = "Connect_ret"
  /\ \E o \in CallsOf("Open") : calls[o].status = "err"
  /\ connRet.err # Nil

\* C22: in a CLI run a failed load is followed by no driver call at all, and
\* a failed Connect by no statement and by no close made by run: the only
\* close there can be is the one Connect made right after its failed ping.
C22_FailedPhaseStopsRun ==
  entry = "main" =>
    /\ loadRet \notin {Unset, Nil} =>
         /\ \A i \in 1..Len(calls) : calls[i].op = "ReadFile"
         /\ db = "nil"
         /\ connRet = NoHandle
         /\ execRet = Unset
    /\ connRet.err \notin {Unset, Nil} =>
         /\ CallsOf("Exec") = {}
         /\ execRet = Unset
         /\ pc \in {"Connect_ret", "run_ret", "done"}
         /\ Cardinality(CallsOf("Close")) <= 1
         /\ \A c \in CallsOf("Close") :
              calls[c - 1].op = "Ping" /\ calls[c - 1].status = "err"

\* C22 witness: a CLI run has ended after sql.Open failed, without a close.
C22_Witness ==
  /\ entry = "main"
  /\ pc = "done"
  /\ \E o \in CallsOf("Open") : calls[o].status = "err"
  /\ CallsOf("Close") = {}

\* C23: every statement ever submitted to db.Exec is non-empty, holds no
\* ";" and neither begins nor ends with white space.
C23_StatementsWellFormed ==
  \A e \in CallsOf("Exec") :
    LET stmt == calls[e].arg
    IN  /\ stmt # <<>>
        /\ \A i \in 1..Len(stmt) : stmt[i] # ";"
        /\ stmt[1] \notin SpaceChars
        /\ stmt[Len(stmt)] \notin SpaceChars

\* C23 witness: a statement is in flight whose fragment had white space
\* around it and was not the first fragment of the script.
C23_Witness ==
  /\ pc = "Exec"
  /\ idx >= 2
  /\ statements[idx] # calls[Len(calls)].arg
  /\ statements[idx][1] \in SpaceChars

\* Control is inside ExecuteScript or has just returned from it.
InExecuteScript ==
  pc \in {"ExecuteScript", "loop", "Exec", "ExecuteScript_ret"}

\* C24: from the call of ExecuteScript to its return the handle stays open
\* and the only calls made on it are statements: the open and the ping made
\* by Connect remain the only ones and nothing is closed.
C24_ExecuteScriptLeavesHandleOpen ==
  InExecuteScript =>
    /\ db = "open"
    /\ connRet.db = "open"
    /\ CallsOf("Close") = {}
    /\ Cardinality(CallsOf("Open")) = 1
    /\ Cardinality(CallsOf("Ping")) = 1
    /\ \A p \in CallsOf("Ping") :
         \A i \in (p + 1)..Len(calls) : calls[i].op = "Exec"

\* C24 witness: ExecuteScript has just returned the error of its second
\* statement and the handle is open.
C24_Witness ==
  /\ pc = "ExecuteScript_ret"
  /\ execRet # Nil
  /\ Cardinality(CallsOf("Exec")) = 2
  /\ db = "open"

\* The fragments trimmed, without those that trim to nothing: what the range
\* loop of ExecuteScript submits when no statement fails.
RECURSIVE TrimmedNonEmpty(_)
TrimmedNonEmpty(fragments) ==
  IF fragments = <<>> THEN <<>>
  ELSE LET stmt == TrimSpace(Head(fragments))
       IN  (IF stmt = <<>> THEN <<>> ELSE <<stmt>>)
             \o TrimmedNonEmpty(Tail(fragments))

\* The statements ExecuteScript submits for a script when none fails: none
\* for a script that trims to nothing, else those of the trimmed script's
\* fragments.
StatementsOf(s) ==
  LET t == TrimSpace(s)
  IN  IF t = <<>> THEN <<>> ELSE TrimmedNonEmpty(Split(t))

\* The text without its leading and trailing white space, stated on
\* positions.
Stripped(s) ==
  LET ink == {i \in 1..Len(s) : s[i] \notin SpaceChars}
  IN  IF ink = {} THEN <<>>
      ELSE SubSeq(s, CHOOSE i \in ink : \A j \in ink : i <= j,
                     CHOOSE i \in ink : \A j \in ink : i >= j)

\* C25: when no statement fails, the statements submitted for a script
\* a ; b are those for a followed by those for b, the statements submitted
\* for a script are those for the script without its outer white space, and
\* trimming the whole script first changes nothing in what is submitted.
C25_ExtractionDistributes ==
  execRet = Nil =>
    /\ Issued = StatementsOf(script)
    /\ \A i \in 1..Len(script) :
         script[i] = ";" =>
           Issued = StatementsOf(SubSeq(script, 1, i - 1))
                      \o StatementsOf(SubSeq(script, i + 1, Len(script)))
    /\ Issued = StatementsOf(Stripped(script))
    /\ Issued = TrimmedNonEmpty(Split(script))

\* C25 witness: a script with white space in front and two statements around
\* a ";" was executed with success.
C25_Witness ==
  /\ execRet = Nil
  /\ script # <<>>
  /\ script[1] \in SpaceChars
  /\ Len(Issued) = 2
  /\ Cardinality({i \in 1..Len(script) : script[i] = ";"}) = 1

====
